---- MODULE Spec2Model ----
(***************************************************************************)
(* Model of pypomes_http: the request dispatcher http_rest (http_pomes.py) *)
(* and the asynchronous job runner HttpAsync (http_async.py).              *)
(*                                                                         *)
(* Python values are represented as follows:                               *)
(*   None            the empty tuple <<>>; an optional value v is <<v>>    *)
(*   dict            a function with a set of strings as its domain        *)
(*   list            a sequence                                            *)
(*   bytes           a sequence of integers in 0..255                      *)
(*   formatted text  a record holding the values the f-string interpolates *)
(*                                                                         *)
(* HttpAsync.run calls _http_rest, a name http_pomes.py does not define;   *)
(* it is taken to be http_rest, the dispatcher with those parameters.      *)
(* Each thread of control p runs http_rest in four steps (authorization,   *)
(* send, validation, report).  SpecRest is a caller making direct calls    *)
(* with an errors list of its own; SpecJob is one HttpAsync job.           *)
(***************************************************************************)
EXTENDS Integers, Sequences, FiniteSets, TLC

VARIABLES
    pc,             \* pc[p]: position of thread of control p
    frame,          \* frame[p]: parameters and locals of p's http_rest call
    errs,           \* errs[p]: the contents of the list object that p owns
    callerHeaders,  \* the caller-held headers mapping (a shared object)
    callerArgs,     \* callerArgs[p]: the files and auth mappings passed to p's call
    sent,           \* sent[p]: the transport's calls in p's call, and how each ended
    tokenLog,       \* tokenLog[p]: token collaborator calls in p's call
    entry,          \* entry[p]: arguments of p's current or last http_rest call
    ret,            \* ret[p]: how p's last http_rest call ended
    calls,          \* number of http_rest calls the caller has made
    job,            \* job[j]: the attributes of HttpAsync instance j
    delivered,      \* delivered[j]: the replies handed to j's callback
    dispatched,     \* dispatched[j]: number of dispatcher calls made by run()
    clock,          \* the wall clock read by datetime.now()
    web             \* the inbound request or status lookup, and its result

vars == <<pc, frame, errs, callerHeaders, callerArgs, sent, tokenLog, entry, ret,
          calls, job, delivered, dispatched, clock, web>>

---------------------------------------------------------------------------
(* Bounds of the model *)

MaxCalls == 2
MaxClock == 2
MaxTokenErrors == 2

---------------------------------------------------------------------------
(* Python values *)

None == <<>>
Some(v) == <<v>>
IsNone(o) == o = <<>>
Val(o) == o[1]

EmptyMap == <<>>
Drop(m, k) == [x \in (DOMAIN m) \ {k} |-> m[x]]
Put(m, k, v) == [x \in (DOMAIN m) \cup {k} |-> IF x = k THEN v ELSE m[x]]

Main == "main"
Jobs == {"j1", "j2"}
Procs == {Main} \cup Jobs

---------------------------------------------------------------------------
(* HttpMethod and the success range *)

MethodNames == {"DELETE", "GET", "HEAD", "PATCH", "POST", "PUT"}

\* the value of each member of the StrEnum
HttpMethodValue(name) == IF name = "PATCH" THEN "PATH" ELSE name

\* a member of HttpMethod
EnumMethod(name) == [name |-> name, value |-> HttpMethodValue(name), enum |-> TRUE]

\* a plain string given where a method is expected
StrMethod(s) == [name |-> s, value |-> s, enum |-> FALSE]

StatusLow == 200
StatusHigh == 300
ClientErrorLow == 400
ServerErrorHigh == 600

---------------------------------------------------------------------------
(* requests.Response *)

Response(status, reason, content) ==
    [status_code |-> status, reason |-> reason, content |-> content]

\* Response.__bool__ is Response.ok: false for a status in 400..599
ResponseOk(r) == ~(ClientErrorLow <= r.status_code /\ r.status_code < ServerErrorHigh)

\* the truth value Python gives to 'result' (None, or a Response)
Truthy(result) == ~IsNone(result) /\ ResponseOk(Val(result))

---------------------------------------------------------------------------
(* The error messages http_rest formats *)

\* auth.get('scheme')
AuthGetScheme(auth) ==
    IF "scheme" \in DOMAIN auth THEN Some(auth.scheme) ELSE None

\* f"Authentication scheme {auth.get('scheme')} not implemented"
SchemeMsg(auth) ==
    [kind |-> "scheme not implemented", scheme |-> AuthGetScheme(auth)]

\* f"{method} '{url}': error, '{exc_err}'"
ExcMsg(method, url, exc) ==
    [kind |-> "error", method |-> method.value, url |-> url, exc |-> exc]

\* f"{method} '{url}': failed, status {result.status_code}, reason '{result.reason}'"
StatusMsg(method, url, r) ==
    [kind |-> "failed", method |-> method.value, url |-> url,
     status |-> r.status_code, reason |-> r.reason]

---------------------------------------------------------------------------
(* http_rest: headers and authorization *)

\* headers.copy() if headers else None
CloneHeaders(headers, heap) ==
    IF IsNone(headers) \/ heap = EmptyMap THEN None ELSE Some(heap)

\* a variant that keeps the caller's mapping: 'headers if headers else None'
SharesHeaders_NoCopy(headers, heap) == ~IsNone(headers) /\ heap # EmptyMap

\* is op_headers the caller's own mapping object ?  headers.copy() is a new one
SharesHeaders(headers, heap) == FALSE

\* the contents of op_headers, which are the caller's mapping's when shared
ReadHeaders(f, heap) ==
    IF f.shares THEN [f EXCEPT !.op_headers = Some(heap)] ELSE f

\* the parameters and locals of a call, on entry
NewFrame(method, url, headers, files, auth, errors) ==
    [method |-> method, url |-> url, headers |-> headers, files |-> files,
     auth |-> auth, errors |-> errors,
     result |-> None, op_headers |-> None, shares |-> FALSE, err_msg |-> None,
     op_errors |-> <<>>, x_files |-> None]

NoFrame == <<>>

\* no mapping has been passed
NoArgs == [files |-> None, auth |-> None]

\* f"Bearer {jwt_data.get('access_token')}"
Bearer(token) == [bearer |-> token]

\* op_headers = op_headers or {}; op_headers["Authorization"] = ...
SetAuthorization(op_headers, token) ==
    Some(Put(IF IsNone(op_headers) THEN EmptyMap ELSE Val(op_headers),
             "Authorization", Bearer(token)))

\* a variant that never passes the claims on
TokenCall_NoClaims(provider, claims) ==
    [fn |-> "jwt_get_token", service_url |-> provider, claims |-> None]

\* the call made to the token collaborator for a bearer mapping whose
\* 'scheme' and 'provider' entries have been popped, leaving 'claims'
TokenCall(provider, claims) ==
    IF claims # EmptyMap
    THEN [fn |-> "jwt_request_token", service_url |-> provider, claims |-> Some(claims)]
    ELSE [fn |-> "jwt_get_token", service_url |-> provider, claims |-> None]

\* a variant that takes any scheme for 'bearer'
IsBearer_AnyScheme(scheme) == ~IsNone(scheme)

\* is 'scheme' the one http_rest implements ?
IsBearer(scheme) == scheme = Some("bearer")

\* a variant that works on the caller's mapping: 'jwt_data = auth or {}'
SharesAuth_NoCopy(auth) == ~IsNone(auth) /\ Val(auth) # EmptyMap

\* is jwt_data the caller's own mapping object ?  dict(auth or {}) is a new one
SharesAuth(auth) == FALSE

\* lines 482-526: 'tok' is what the token collaborator does if it is called;
\* 'heap' is the caller's headers mapping, whose contents afterwards are given,
\* as are those of the caller's auth mapping
AuthResolve(f, heap, tok) ==
    LET f0 == [f EXCEPT !.op_headers = CloneHeaders(f.headers, heap),
                        !.shares = SharesHeaders(f.headers, heap)]
        jwt0 == IF IsNone(f.auth) THEN EmptyMap ELSE Val(f.auth)
        jwt1 == Drop(jwt0, "scheme")
        claims == Drop(jwt1, "provider")
        authorized == SetAuthorization(f0.op_headers, Val(tok.token))
        after(jwt_data) == IF SharesAuth(f.auth) THEN Some(jwt_data) ELSE f.auth
    IN  IF jwt0 = EmptyMap
        THEN [f |-> f0, raise |-> None, tokenCall |-> None, heap |-> heap,
              auth |-> f.auth]
        ELSE IF ~IsBearer(AuthGetScheme(jwt0))
        THEN [f |-> [f0 EXCEPT !.err_msg = Some(SchemeMsg(Val(after(jwt1))))],
              raise |-> None, tokenCall |-> None, heap |-> heap, auth |-> after(jwt1)]
        ELSE IF "provider" \notin DOMAIN jwt1
        THEN [f |-> f0, raise |-> Some("KeyError"), tokenCall |-> None, heap |-> heap,
              auth |-> after(jwt1)]
        ELSE [f |-> [f0 EXCEPT
                       !.op_errors = tok.errors,
                       !.op_headers = IF tok.errors = <<>> THEN authorized
                                      ELSE f0.op_headers],
              raise |-> None,
              tokenCall |-> Some(TokenCall(jwt1.provider, claims)
                                   @@ [errors |-> tok.errors, token |-> tok.token]),
              heap |-> IF tok.errors = <<>> /\ f0.shares THEN Val(authorized) ELSE heap,
              auth |-> after(claims)]

\* a variant that sends although the token collaborator reported errors
Proceed_IgnoresOpErrors(f) == IsNone(f.err_msg)

\* line 529: 'if not err_msg and not op_errors'
Proceed(f) == IsNone(f.err_msg) /\ f.op_errors = <<>>

---------------------------------------------------------------------------
(* http_rest: files, send, validate, report *)

Stream(data, pos) == [kind |-> "stream", data |-> data, pos |-> pos]
Bytes(data) == [kind |-> "bytes", data |-> data]
FileTuple(name, content, rest) ==
    [kind |-> "tuple", name |-> name, content |-> content, rest |-> rest]

\* lines 536-545: one entry of 'files'
NormFile(v) ==
    IF v.kind = "bytes" THEN Stream(v.data, 0)
    ELSE IF v.kind = "tuple" /\ v.content.kind = "bytes"
         THEN [v EXCEPT !.content = Stream(v.content.data, 0)]
         ELSE v

\* a variant that adjusts the caller's mapping in place: 'x_files = files'
SharesFiles_NoCopy(files) == ~IsNone(files)

\* is x_files the caller's own mapping object ?  files.copy() is a new one
SharesFiles(files) == FALSE

\* a variant that adjusts 'files' for every method
XFiles_AnyMethod(method, files) ==
    IF ~IsNone(files)
    THEN Some([k \in DOMAIN Val(files) |-> NormFile(Val(files)[k])])
    ELSE None

\* lines 531-545
XFiles(method, files) ==
    IF method.value = "POST" /\ ~IsNone(files)
    THEN Some([k \in DOMAIN Val(files) |-> NormFile(Val(files)[k])])
    ELSE None

\* what requests.request receives
Request(f, x_files) ==
    [method |-> f.method.name, url |-> f.url, headers |-> f.op_headers,
     files |-> x_files]

\* lines 530-566: 'out' is what the transport does if it is called;
\* 'files' is the caller's files mapping afterwards
SendStep(f, out) ==
    LET x_files == XFiles(f.method, f.files)
        f1 == [f EXCEPT !.x_files = x_files]
        files == IF ~IsNone(x_files) /\ SharesFiles(f.files) THEN x_files ELSE f.files
    IN  IF ~f.method.enum
        THEN \* method.name raises AttributeError inside the try block
             [f |-> [f1 EXCEPT !.err_msg = Some(ExcMsg(f.method, f.url, "AttributeError"))],
              request |-> None, files |-> files]
        ELSE IF out.kind = "raise"
        THEN [f |-> [f1 EXCEPT !.err_msg = Some(ExcMsg(f.method, f.url, out.exc))],
              request |-> Some(Request(f, x_files)), files |-> files]
        ELSE [f |-> [f1 EXCEPT !.result = Some(out.response)],
              request |-> Some(Request(f, x_files)), files |-> files]

\* a variant that relies on the truth value of the response alone
Unsuccessful_TruthOnly(result) == ~Truthy(result)

\* lines 569-571: the condition of 'was the request successful ?'
Unsuccessful(result) ==
    \/ ~Truthy(result)
    \/ Val(result).status_code < StatusLow
    \/ Val(result).status_code >= StatusHigh

\* lines 568-574
ValidateStep(f) ==
    IF ~Unsuccessful(f.result)
    THEN [f |-> f, raise |-> None]
    ELSE IF IsNone(f.result)
    THEN \* result.status_code on None, while formatting the message
         [f |-> f, raise |-> Some("AttributeError")]
    ELSE [f |-> [f EXCEPT !.err_msg = Some(StatusMsg(f.method, f.url, Val(f.result)))],
          raise |-> None]

\* a variant that stores the messages in place of the list's contents
Extend_Overwrite(f, list, more) == IF IsNone(f.errors) THEN list ELSE more

\* errors.extend(more) / errors.append(msg), 'if isinstance(errors, list)'
Extend(f, list, more) == IF IsNone(f.errors) THEN list ELSE list \o more

\* lines 576-582
ReportStep(f, list) ==
    IF IsNone(f.err_msg) THEN list ELSE Extend(f, list, <<Val(f.err_msg)>>)

Returned(result) == [kind |-> "returned", value |-> result, exc |-> None]
Raised(exc) == [kind |-> "raised", value |-> None, exc |-> Some(exc)]
NotCalled == [kind |-> "none", value |-> None, exc |-> None]

---------------------------------------------------------------------------
(* The collaborators: what they may do when called *)

TokenErrors(n) == [i \in 1..n |-> [kind |-> "token", n |-> i]]

\* jwt_get_token / jwt_request_token, called on behalf of p: a token and no
\* error, or no token and one or more errors appended to op_errors
TokenOutcomes(p) ==
    {[errors |-> <<>>, token |-> Some([jwt |-> p])]}
    \cup {[errors |-> TokenErrors(n), token |-> None] : n \in 1..MaxTokenErrors}

Statuses == {100, 200, 204, 299, 300, 404, 500}

\* Response.content: bytes, or None when nothing was read
Contents == {None, Some(<<>>), Some(<<77>>), Some(<<77, 97>>), Some(<<77, 97, 110>>),
             Some(<<255, 254, 253, 0>>)}

ReasonOf(status) ==
    CASE status = 100 -> "Continue"
      [] status = 200 -> "OK"
      [] status = 204 -> "No Content"
      [] status = 299 -> ""
      [] status = 300 -> "Multiple Choices"
      [] status = 404 -> "Not Found"
      [] status = 500 -> "Internal Server Error"

\* every status with one body; for the first job, also every body with two
\* statuses
Responses(p) ==
    {Response(s, ReasonOf(s), Some(<<77, 97>>)) : s \in Statuses}
    \cup IF p = "j1"
         THEN {Response(s, ReasonOf(s), c) : s \in {200, 404}, c \in Contents}
         ELSE {}

\* requests.request, called on behalf of p: raises, or returns a response
TransportOutcomes(p) ==
    {[kind |-> "raise", exc |-> e] : e \in {"ConnectionError", "Timeout"}}
    \cup {[kind |-> "response", response |-> r] : r \in Responses(p)}

---------------------------------------------------------------------------
(* The inputs enumerated *)

Url == "https://api.example.com/items"
Provider == "https://auth.example.com/token"

AuthInputs ==
    {None,
     Some(EmptyMap),
     Some([scheme |-> "bearer", provider |-> Provider]),
     Some([scheme |-> "bearer", provider |-> Provider, sub |-> "client"]),
     Some([scheme |-> "bearer", url |-> Provider]),
     Some([scheme |-> "basic", provider |-> Provider]),
     Some([provider |-> Provider])}

HeaderMaps == {EmptyMap, [Accept |-> "application/json"]}

\* a reference to the caller-held mapping, or None
HeaderRef == "callerHeaders"
HeaderInputs == {None, Some(HeaderRef)}

\* the 'files' mappings: raw bytes, an open stream that has been read from,
\* and tuples (file-name, file-content, content-type...) of either
FileInputs ==
    {None,
     Some(EmptyMap),
     Some([doc |-> Bytes(<<1, 2>>)]),
     Some([doc |-> Stream(<<3, 4>>, 1)]),
     Some([doc |-> FileTuple("a.txt", Bytes(<<>>), <<>>)]),
     Some([doc |-> FileTuple("a.txt", Stream(<<3, 4>>, 2), <<"text/plain">>)]),
     Some([doc |-> Bytes(<<1, 2>>),
           img |-> FileTuple("b.png", Bytes(<<137, 80>>), <<"image/png">>),
           raw |-> Stream(<<3, 4>>, 1)])}

\* the arguments of the direct calls of http_rest
RestMethods == {EnumMethod("GET"), EnumMethod("POST"), EnumMethod("PATCH")}

---------------------------------------------------------------------------
(* http_rest, step by step, run by thread of control p *)

\* a reference to the list object of p, or None
ListRef(p) == Some(p)

\* the owner of the list object that f.errors refers to (p's own, which is
\* left as it is, if f.errors is None)
ListOf(f, p) == IF IsNone(f.errors) THEN p ELSE Val(f.errors)

\* http_rest is left: by 'return result', or by an exception
Exit(p, r) ==
    /\ ret' = [ret EXCEPT ![p] = r]
    /\ frame' = [frame EXCEPT ![p] = NoFrame]
    /\ pc' = [pc EXCEPT ![p] = IF p = Main THEN "idle"
                               ELSE IF r.kind = "raised" THEN "done"
                               ELSE "finish_ts"]
    /\ job' = IF p \in Jobs /\ r.kind = "raised"
              THEN [job EXCEPT ![p].state = "Finished", ![p].raised = r.exc]
              ELSE job

\* lines 482-529
RestAuth(p) ==
    /\ pc[p] = "rest_auth"
    /\ \E tok \in TokenOutcomes(p) :
         LET a == AuthResolve(frame[p], callerHeaders, tok)
         IN  /\ tokenLog' = [tokenLog EXCEPT ![p] =
                               IF IsNone(a.tokenCall) THEN @ ELSE Append(@, Val(a.tokenCall))]
             /\ errs' = [errs EXCEPT ![ListOf(a.f, p)] = Extend(a.f, @, a.f.op_errors)]
             /\ callerHeaders' = a.heap
             /\ callerArgs' = [callerArgs EXCEPT ![p].auth = a.auth]
             /\ IF IsNone(a.raise)
                THEN /\ frame' = [frame EXCEPT ![p] = a.f]
                     /\ pc' = [pc EXCEPT ![p] = IF Proceed(a.f) THEN "rest_send"
                                                ELSE "rest_report"]
                     /\ UNCHANGED <<ret, job>>
                ELSE Exit(p, Raised(Val(a.raise)))
    /\ UNCHANGED <<sent, entry, calls, delivered, dispatched, clock, web>>

\* lines 530-566
RestSend(p) ==
    /\ pc[p] = "rest_send"
    /\ \E out \in TransportOutcomes(p) :
         LET s == SendStep(ReadHeaders(frame[p], callerHeaders), out)
         IN  /\ frame' = [frame EXCEPT ![p] = s.f]
             /\ callerArgs' = [callerArgs EXCEPT ![p].files = s.files]
             /\ sent' = [sent EXCEPT ![p] =
                           IF IsNone(s.request) THEN @
                           ELSE Append(@, [request |-> Val(s.request), outcome |-> out])]
    /\ pc' = [pc EXCEPT ![p] = "rest_validate"]
    /\ UNCHANGED <<errs, callerHeaders, tokenLog, entry, ret, calls, job,
                   delivered, dispatched, clock, web>>

\* a variant that sends again after an unsuccessful attempt
RestValidate_Retry(p) ==
    /\ pc[p] = "rest_validate"
    /\ IF Unsuccessful(frame[p].result)
       THEN /\ frame' = [frame EXCEPT ![p] = [@ EXCEPT !.err_msg = None, !.result = None]]
            /\ pc' = [pc EXCEPT ![p] = "rest_send"]
       ELSE /\ pc' = [pc EXCEPT ![p] = "rest_report"]
            /\ UNCHANGED frame
    /\ UNCHANGED <<errs, callerHeaders, callerArgs, sent, tokenLog, entry, ret, calls, job,
                   delivered, dispatched, clock, web>>

\* lines 568-574
RestValidate(p) ==
    /\ pc[p] = "rest_validate"
    /\ LET v == ValidateStep(frame[p])
       IN  IF IsNone(v.raise)
           THEN /\ frame' = [frame EXCEPT ![p] = v.f]
                /\ pc' = [pc EXCEPT ![p] = "rest_report"]
                /\ UNCHANGED <<ret, job>>
           ELSE Exit(p, Raised(Val(v.raise)))
    /\ UNCHANGED <<errs, callerHeaders, callerArgs, sent, tokenLog, entry, calls,
                   delivered, dispatched, clock, web>>

\* lines 576-584
RestReport(p) ==
    /\ pc[p] = "rest_report"
    /\ errs' = [errs EXCEPT ![ListOf(frame[p], p)] = ReportStep(frame[p], @)]
    /\ Exit(p, Returned(frame[p].result))
    /\ UNCHANGED <<callerHeaders, callerArgs, sent, tokenLog, entry, calls,
                   delivered, dispatched, clock, web>>

\* the arguments of a call, and the contents of its errors list, on entry
Entry(f, list) == [args |-> f, errors |-> list]

\* p enters http_rest with frame f
Enter(p, f) ==
    /\ frame' = [frame EXCEPT ![p] = f]
    /\ entry' = [entry EXCEPT ![p] = Entry(f, errs[p])]
    /\ callerArgs' = [callerArgs EXCEPT ![p] = [files |-> f.files, auth |-> f.auth]]
    /\ sent' = [sent EXCEPT ![p] = <<>>]
    /\ tokenLog' = [tokenLog EXCEPT ![p] = <<>>]
    /\ ret' = [ret EXCEPT ![p] = NotCalled]
    /\ pc' = [pc EXCEPT ![p] = "rest_auth"]

\* the caller calls http_rest, passing its own list, or None, as 'errors',
\* and as 'auth' a new mapping or the one it passed to the call before
MainCallWith(methods, files, auths) ==
    /\ pc[Main] = "idle"
    /\ calls < MaxCalls
    /\ calls' = calls + 1
    /\ \E m \in methods, h \in HeaderInputs, fl \in files,
          a \in auths \cup {callerArgs[Main].auth}, e \in {None, ListRef(Main)} :
         Enter(Main, NewFrame(m, Url, h, fl, a, e))
    /\ UNCHANGED <<errs, callerHeaders, job, delivered, dispatched, clock, web>>

MainCall == MainCallWith(RestMethods, {None}, AuthInputs)

Rest(p) == RestAuth(p) \/ RestSend(p) \/ RestValidate(p) \/ RestReport(p)

---------------------------------------------------------------------------
(* Direct calls of http_rest by one caller *)

NoJob == <<>>

\* no inbound request is being served
NoWeb == [op |-> "none"]

InitRest ==
    /\ pc = [p \in Procs |-> IF p = Main THEN "idle" ELSE "absent"]
    /\ frame = [p \in Procs |-> NoFrame]
    /\ errs = [p \in Procs |-> <<>>]
    /\ callerHeaders \in HeaderMaps
    /\ callerArgs = [p \in Procs |-> NoArgs]
    /\ sent = [p \in Procs |-> <<>>]
    /\ tokenLog = [p \in Procs |-> <<>>]
    /\ entry = [p \in Procs |-> <<>>]
    /\ ret = [p \in Procs |-> NotCalled]
    /\ calls = 0
    /\ job = [j \in Jobs |-> NoJob]
    /\ delivered = [j \in Jobs |-> <<>>]
    /\ dispatched = [j \in Jobs |-> 0]
    /\ clock = 0
    /\ web = NoWeb

NextRest == MainCall \/ Rest(Main)

SpecRest == InitRest /\ [][NextRest]_vars

---------------------------------------------------------------------------
(* Direct calls of http_rest that pass 'files' *)

FileMethods == {EnumMethod("GET"), EnumMethod("POST")}

FilesCall == MainCallWith(FileMethods, FileInputs, {None})

NextFiles == FilesCall \/ Rest(Main)

SpecFiles == InitRest /\ [][NextFiles]_vars

---------------------------------------------------------------------------
(* HttpAsync *)

\* datetime.isoformat(): the text of an instant
IsoFormat(t) == [iso |-> t]

\* json.dumps(errors, ensure_ascii=False): the text of a list of strings, as
\* its tokens: brackets, commas, and one string literal for each element
RECURSIVE JsonItems(_)
JsonItems(list) ==
    IF list = <<>> THEN <<>>
    ELSE IF Len(list) = 1 THEN << [str |-> list[1]] >>
    ELSE << [str |-> list[1]], [tok |-> ","] >> \o JsonItems(Tail(list))

JsonDumps(list) == << [tok |-> "["] >> \o JsonItems(list) \o << [tok |-> "]"] >>

\* the alphabet of Base64 is 0..63; the padding character '='
Pad == 64

\* base64.b64encode(bs).decode(): three bytes give four characters
RECURSIVE B64Encode(_)
B64Encode(bs) ==
    IF bs = <<>> THEN <<>>
    ELSE LET n == Len(bs)
             b2 == IF n >= 2 THEN bs[2] ELSE 0
             b3 == IF n >= 3 THEN bs[3] ELSE 0
             w == bs[1] * 65536 + b2 * 256 + b3
         IN  << w \div 262144,
                (w \div 4096) % 64,
                IF n >= 2 THEN (w \div 64) % 64 ELSE Pad,
                IF n >= 3 THEN w % 64 ELSE Pad >>
             \o B64Encode(IF n > 3 THEN SubSeq(bs, 4, n) ELSE <<>>)

\* the attributes set by __init__
NewJob(name, url, method, callback, report_content, headers, auth) ==
    [job_name |-> name, job_url |-> url, job_method |-> method,
     callback |-> callback, report_content |-> report_content,
     headers |-> headers, auth |-> auth,
     start_timestamp |-> None, finish_timestamp |-> None,
     state |-> "Created", raised |-> None, start_rejected |-> FALSE]

\* a variant that reports the content whether or not it was asked for
ReportsContent_Unasked(jb, response) ==
    Truthy(response) /\ ~IsNone(Val(response).content)

\* lines 129-132: is the content of the response reported ?
ReportsContent(jb, response) ==
    /\ jb.report_content
    /\ Truthy(response)
    /\ ~IsNone(Val(response).content)

\* a variant that reports 'errors' without testing the list
Reply_AlwaysErrors(jb, errors, response) ==
    [k \in {"job-name", "start", "finish", "errors"} |->
       CASE k = "job-name" -> jb.job_name
         [] k = "start" -> Val(jb.start_timestamp)
         [] k = "finish" -> Val(jb.finish_timestamp)
         [] k = "errors" -> JsonDumps(errors)]

\* lines 117-133: the reply sent to the callback
Reply(jb, errors, response) ==
    LET r0 == [k \in {"job-name", "start", "finish"} |->
                 CASE k = "job-name" -> jb.job_name
                   [] k = "start" -> Val(jb.start_timestamp)
                   [] k = "finish" -> Val(jb.finish_timestamp)]
        r1 == IF errors # <<>> THEN Put(r0, "errors", JsonDumps(errors)) ELSE r0
    IN  IF ReportsContent(jb, response)
        THEN Put(r1, "content", B64Encode(Val(Val(response).content)))
        ELSE r1

\* a variant whose start() runs the job again, whatever its state
JobStart_Unchecked(j) ==
    /\ pc[j] # "absent"
    /\ job' = [job EXCEPT ![j].state = "Running"]
    /\ pc' = [pc EXCEPT ![j] = "run"]
    /\ UNCHANGED <<frame, errs, callerHeaders, callerArgs, sent, tokenLog, entry, ret, calls,
                   delivered, dispatched, clock, web>>

\* Thread.start(): starts run() in a thread of its own, once; a later call raises
JobStart(j) ==
    /\ pc[j] # "absent"
    /\ IF job[j].state = "Created"
       THEN /\ job' = [job EXCEPT ![j].state = "Running"]
            /\ pc' = [pc EXCEPT ![j] = "run"]
       ELSE /\ job' = [job EXCEPT ![j].start_rejected = TRUE]
            /\ UNCHANGED pc
    /\ UNCHANGED <<frame, errs, callerHeaders, callerArgs, sent, tokenLog, entry, ret, calls,
                   delivered, dispatched, clock, web>>

\* a variant that records the time of the start as the finish timestamp
JobRun_StampsFinish(j) ==
    /\ pc[j] = "run"
    /\ errs' = [errs EXCEPT ![j] = <<>>]
    /\ job' = [job EXCEPT ![j].finish_timestamp = Some(IsoFormat(clock))]
    /\ pc' = [pc EXCEPT ![j] = "call"]
    /\ UNCHANGED <<frame, callerHeaders, callerArgs, sent, tokenLog, entry, ret, calls,
                   delivered, dispatched, clock, web>>

\* a variant that does not record the start timestamp
JobRun_NoStartStamp(j) ==
    /\ pc[j] = "run"
    /\ errs' = [errs EXCEPT ![j] = <<>>]
    /\ pc' = [pc EXCEPT ![j] = "call"]
    /\ UNCHANGED <<frame, callerHeaders, callerArgs, sent, tokenLog, entry, ret, calls,
                   job, delivered, dispatched, clock, web>>

\* lines 87-94
JobRun(j) ==
    /\ pc[j] = "run"
    /\ errs' = [errs EXCEPT ![j] = <<>>]
    /\ job' = [job EXCEPT ![j].start_timestamp = Some(IsoFormat(clock))]
    /\ pc' = [pc EXCEPT ![j] = "call"]
    /\ UNCHANGED <<frame, callerHeaders, callerArgs, sent, tokenLog, entry, ret, calls,
                   delivered, dispatched, clock, web>>

\* a variant that collects the messages in a list the creator holds
JobErrors_Shared(j) == ListRef(Main)

\* line 88: 'errors' is a list object made by this run
JobErrors(j) == ListRef(j)

\* lines 96-106: the dispatcher is called with the job's attributes
JobDispatch(j) ==
    /\ pc[j] = "call"
    /\ dispatched' = [dispatched EXCEPT ![j] = @ + 1]
    /\ Enter(j, NewFrame(job[j].job_method, job[j].job_url, job[j].headers,
                         None, job[j].auth, JobErrors(j)))
    /\ UNCHANGED <<errs, callerHeaders, calls, job, delivered, clock, web>>

\* lines 108-109
JobFinishTs(j) ==
    /\ pc[j] = "finish_ts"
    /\ job' = [job EXCEPT ![j].finish_timestamp = Some(IsoFormat(clock))]
    /\ pc' = [pc EXCEPT ![j] = "callback"]
    /\ UNCHANGED <<frame, errs, callerHeaders, callerArgs, sent, tokenLog, entry, ret, calls,
                   delivered, dispatched, clock, web>>

\* lines 114-137; run() returns and the thread ends
JobCallback(j) ==
    /\ pc[j] = "callback"
    /\ delivered' = [delivered EXCEPT ![j] =
                       IF job[j].callback
                       THEN Append(@, Reply(job[j], errs[Val(JobErrors(j))], ret[j].value))
                       ELSE @]
    /\ job' = [job EXCEPT ![j].state = "Finished"]
    /\ pc' = [pc EXCEPT ![j] = "done"]
    /\ UNCHANGED <<frame, errs, callerHeaders, callerArgs, sent, tokenLog, entry, ret, calls,
                   dispatched, clock, web>>

\* time passes
Tick ==
    /\ clock < MaxClock
    /\ clock' = clock + 1
    /\ UNCHANGED <<pc, frame, errs, callerHeaders, callerArgs, sent, tokenLog, entry, ret,
                   calls, job, delivered, dispatched, web>>

JobStep(j) ==
    JobStart(j) \/ JobRun(j) \/ JobDispatch(j) \/ JobFinishTs(j) \/ JobCallback(j)

---------------------------------------------------------------------------
(* One job *)

JobMethods == {EnumMethod("DELETE"), EnumMethod("PATCH"), StrMethod("GET")}

JobInputs ==
    {NewJob("job", Url, m, cb, rc, h, a) :
        m \in JobMethods, cb \in BOOLEAN, rc \in BOOLEAN,
        h \in HeaderInputs, a \in AuthInputs}

TheJob == "j1"

InitJob ==
    /\ pc = [p \in Procs |-> IF p = TheJob THEN "created" ELSE "absent"]
    /\ frame = [p \in Procs |-> NoFrame]
    /\ errs = [p \in Procs |-> <<>>]
    /\ callerHeaders \in HeaderMaps
    /\ callerArgs = [p \in Procs |-> NoArgs]
    /\ sent = [p \in Procs |-> <<>>]
    /\ tokenLog = [p \in Procs |-> <<>>]
    /\ entry = [p \in Procs |-> <<>>]
    /\ ret = [p \in Procs |-> NotCalled]
    /\ calls = 0
    /\ \E jb \in JobInputs : job = [j \in Jobs |-> IF j = TheJob THEN jb ELSE NoJob]
    /\ delivered = [j \in Jobs |-> <<>>]
    /\ dispatched = [j \in Jobs |-> 0]
    /\ clock = 0
    /\ web = NoWeb

NextJob == JobStep(TheJob) \/ Rest(TheJob) \/ Tick

SpecJob == InitJob /\ [][NextJob]_vars

\* the thread of a started job is scheduled until run() ends
FairJob == SpecJob /\ WF_vars(JobStep(TheJob) \/ Rest(TheJob))

---------------------------------------------------------------------------
(* Two jobs running concurrently, created with the same headers mapping *)

\* jobs that resolve a bearer token and hold the caller's headers mapping
ConcJobInputs ==
    {NewJob("job", Url, EnumMethod("DELETE"), TRUE, FALSE, Some(HeaderRef), a) :
        a \in {Some([scheme |-> "bearer", provider |-> Provider]),
               Some([scheme |-> "bearer", provider |-> Provider, sub |-> "client"])}}

InitConc ==
    /\ pc = [p \in Procs |-> IF p \in Jobs THEN "created" ELSE "absent"]
    /\ frame = [p \in Procs |-> NoFrame]
    /\ errs = [p \in Procs |-> <<>>]
    /\ callerHeaders \in HeaderMaps
    /\ callerArgs = [p \in Procs |-> NoArgs]
    /\ sent = [p \in Procs |-> <<>>]
    /\ tokenLog = [p \in Procs |-> <<>>]
    /\ entry = [p \in Procs |-> <<>>]
    /\ ret = [p \in Procs |-> NotCalled]
    /\ calls = 0
    /\ job \in [Jobs -> ConcJobInputs]
    /\ delivered = [j \in Jobs |-> <<>>]
    /\ dispatched = [j \in Jobs |-> 0]
    /\ clock = 0
    /\ web = NoWeb

NextConc == \E j \in Jobs : JobStep(j) \/ Rest(j)

SpecConc == InitConc /\ [][NextConc]_vars

---------------------------------------------------------------------------
(* The parameters of an inbound request *)

\* dict.get(key): the value, or None
Get(m, k) == IF k \in DOMAIN m THEN m[k] ELSE None

\* dict.update(m): the entries of m are set, over those the dict holds
Update(result, m) ==
    [k \in (DOMAIN result) \cup (DOMAIN m) |-> IF k \in DOMAIN m THEN m[k] ELSE result[k]]

\* flask.Request: its form fields, its query string, and its body as JSON
Request_(form, args, json) == [form |-> form, args |-> args, json |-> json]

\* Request.values: the query string and the form fields combined, the query
\* string's value being the one of a key that both hold
RequestValues(request) == Update(request.form, request.args)

\* Request.get_json(): raises when the body is no JSON; the body 'null' is None
GetJson(request) ==
    IF request.json.kind \in {"absent", "malformed"}
    THEN Raised("BadRequest")
    ELSE IF request.json.kind = "null" THEN Returned(None)
    ELSE Returned(Some(request.json.object))

\* a variant that looks in the query string before the form
http_get_parameter_QueryFirst(request, param) ==
    LET json == GetJson(request)
        found1 == Get(request.args, param)
        found2 == IF IsNone(found1) THEN Get(request.form, param) ELSE found1
    IN  IF IsNone(found2) /\ json.kind = "returned" /\ ~IsNone(json.value)
        THEN Returned(Get(Val(json.value), param))
        ELSE Returned(found2)

\* lines 93-129
http_get_parameter(request, param) ==
    LET \* lines 110-113
        form == request.form
        result1 == IF form # EmptyMap THEN Get(form, param) ELSE None
        \* lines 116-121
        values == RequestValues(request)
        result2 == IF IsNone(result1)
                   THEN IF values # EmptyMap THEN Get(values, param) ELSE None
                   ELSE result1
        \* lines 124-127: an exception of get_json() or of .get is suppressed
        json == GetJson(request)
        result3 == IF IsNone(result2)
                   THEN IF json.kind = "raised" THEN result2
                        ELSE IF IsNone(json.value) THEN result2
                        ELSE Get(Val(json.value), param)
                   ELSE result2
    IN  Returned(result3)

\* a variant that lays the form first and the JSON body last
http_get_parameters_FormFirst(request) ==
    LET json == GetJson(request)
        result1 == Update(EmptyMap, request.form)
        result2 == Update(result1, RequestValues(request))
    IN  IF json.kind = "raised" \/ IsNone(json.value)
        THEN Returned(Some(result2))
        ELSE Returned(Some(Update(result2, Val(json.value))))

\* lines 132-157
http_get_parameters(request) ==
    LET \* lines 147-148: an exception of get_json() or of update is suppressed
        json == GetJson(request)
        result1 == IF json.kind = "raised" THEN EmptyMap
                   ELSE IF IsNone(json.value) THEN EmptyMap
                   ELSE Update(EmptyMap, Val(json.value))
        \* line 151
        result2 == Update(result1, RequestValues(request))
        \* line 154
        result3 == Update(result2, request.form)
    IN  Returned(Some(result3))

\* the names of the parameters of the requests
ParamNames == {"a", "b"}

\* the mappings of some of the names to the value v
Layers(v) == UNION {[names -> {Some(v)}] : names \in SUBSET ParamNames}

\* JSON bodies: none, text that is no JSON, null, and objects whose members
\* are strings or null
JsonBodies ==
    {[kind |-> k] : k \in {"absent", "malformed", "null"}}
    \cup {[kind |-> "object", object |-> o] :
             o \in UNION {[names -> {Some("json"), None}] : names \in SUBSET ParamNames}}

Requests ==
    {Request_(form, args, json) :
        form \in Layers("form"), args \in Layers("query"), json \in JsonBodies}

\* an inbound request is being served, and no function has been applied to it
Served(request) == [op |-> "request", request |-> request]

GetParameter ==
    /\ web.op = "request"
    /\ \E param \in ParamNames \cup {"c"} :
         web' = [op |-> "http_get_parameter", request |-> web.request, param |-> param,
                 ret |-> http_get_parameter(web.request, param)]
    /\ UNCHANGED <<pc, frame, errs, callerHeaders, callerArgs, sent, tokenLog, entry, ret,
                   calls, job, delivered, dispatched, clock>>

GetParameters ==
    /\ web.op = "request"
    /\ web' = [op |-> "http_get_parameters", request |-> web.request,
               ret |-> http_get_parameters(web.request)]
    /\ UNCHANGED <<pc, frame, errs, callerHeaders, callerArgs, sent, tokenLog, entry, ret,
                   calls, job, delivered, dispatched, clock>>

\* no call of http_rest and no job: every thread of control is absent
InitIdle ==
    /\ pc = [p \in Procs |-> "absent"]
    /\ frame = [p \in Procs |-> NoFrame]
    /\ errs = [p \in Procs |-> <<>>]
    /\ callerHeaders = EmptyMap
    /\ callerArgs = [p \in Procs |-> NoArgs]
    /\ sent = [p \in Procs |-> <<>>]
    /\ tokenLog = [p \in Procs |-> <<>>]
    /\ entry = [p \in Procs |-> <<>>]
    /\ ret = [p \in Procs |-> NotCalled]
    /\ calls = 0
    /\ job = [j \in Jobs |-> NoJob]
    /\ delivered = [j \in Jobs |-> <<>>]
    /\ dispatched = [j \in Jobs |-> 0]
    /\ clock = 0

InitParams == InitIdle /\ web \in {Served(request) : request \in Requests}

NextParams == GetParameter \/ GetParameters

SpecParams == InitParams /\ [][NextParams]_vars

---------------------------------------------------------------------------
(* The table of the HTTP statuses *)

\* a Python int, and a Python tuple
PyInt(n) == [type |-> "int", value |-> n]
PyTuple(items) == [type |-> "tuple", items |-> items]

\* one entry of _HTTP_STATUSES: a code, and a dict with the status' name
StatusEntry(code, name) == [code |-> code, value |-> [name |-> name]]

\* iter(dict): the keys of the dict, in the order of its entries
DictIter(statuses) == [i \in DOMAIN statuses |-> PyInt(statuses[i].code)]

\* lines 62-64: 'for key, value in ...' unpacks each item into two names
RECURSIVE StatusLoop(_, _, _)
StatusLoop(items, status_name, result) ==
    IF items = <<>> THEN Returned(result)
    ELSE IF Head(items).type # "tuple" \/ Len(Head(items).items) # 2
    THEN Raised("TypeError")
    ELSE LET key == Head(items).items[1]
             value == Head(items).items[2]
         IN  StatusLoop(Tail(items), status_name,
                        IF status_name = value.name THEN Some(key) ELSE result)

\* lines 52-66
http_status_code(statuses, status_name) ==
    StatusLoop(DictIter(statuses), status_name, None)

StatusCodes == {200, 404, 500}
StatusNames == {"OK", "Not Found"}

\* the tables of one to three entries, no code twice
StatusTables ==
    {t \in UNION {[1..n -> {StatusEntry(c, nm) : c \in StatusCodes, nm \in StatusNames}] :
                     n \in 1..3} :
        \A i, j \in DOMAIN t : i # j => t[i].code # t[j].code}

\* the table is loaded, and no lookup has been made
Loaded(statuses) == [op |-> "statuses", statuses |-> statuses]

StatusCode ==
    /\ web.op = "statuses"
    /\ \E status_name \in StatusNames \cup {"Teapot"} :
         web' = [op |-> "http_status_code", statuses |-> web.statuses,
                 status_name |-> status_name,
                 ret |-> http_status_code(web.statuses, status_name)]
    /\ UNCHANGED <<pc, frame, errs, callerHeaders, callerArgs, sent, tokenLog, entry, ret,
                   calls, job, delivered, dispatched, clock>>

InitStatus == InitIdle /\ web \in {Loaded(statuses) : statuses \in StatusTables}

NextStatus == StatusCode

SpecStatus == InitStatus /\ [][NextStatus]_vars

---------------------------------------------------------------------------
(* Vocabulary of the properties *)

\* p's call of http_rest has ended
Ended(p) == ret[p].kind # "none"

\* the transport raised in p's call
TransportRaised(p) == \E i \in DOMAIN sent[p] : sent[p][i].outcome.kind = "raise"

\* the transport returned a response in p's call
TransportResponded(p) == \E i \in DOMAIN sent[p] : sent[p][i].outcome.kind = "response"

\* the token collaborator reported errors in p's call
TokenFailed(p) == \E i \in DOMAIN tokenLog[p] : tokenLog[p][i].errors # <<>>

\* p's call was given an errors list
HasSink(p) == ~IsNone(entry[p].args.errors)

\* p's call was given a non-empty auth mapping of a scheme other than 'bearer'
UnsupportedScheme(p) ==
    /\ ~IsNone(entry[p].args.auth)
    /\ Val(entry[p].args.auth) # EmptyMap
    /\ AuthGetScheme(Val(entry[p].args.auth)) # Some("bearer")

\* what p's call has appended to its errors list
Appended(p) ==
    SubSeq(errs[p], Len(entry[p].errors) + 1, Len(errs[p]))

\* the list still starts with what it held on entry
PrefixKept(p) ==
    /\ Len(errs[p]) >= Len(entry[p].errors)
    /\ SubSeq(errs[p], 1, Len(entry[p].errors)) = entry[p].errors

InSuccessRange(r) == 200 <= r.status_code /\ r.status_code <= 299

\* base64.b64decode: four characters give up to three bytes
RECURSIVE B64Decode(_)
B64Decode(cs) ==
    IF cs = <<>> THEN <<>>
    ELSE LET c3 == IF cs[3] = Pad THEN 0 ELSE cs[3]
             c4 == IF cs[4] = Pad THEN 0 ELSE cs[4]
             w == cs[1] * 262144 + cs[2] * 4096 + c3 * 64 + c4
         IN  << w \div 65536 >>
             \o (IF cs[3] = Pad THEN <<>> ELSE << (w \div 256) % 256 >>)
             \o (IF cs[4] = Pad THEN <<>> ELSE << w % 256 >>)
             \o B64Decode(SubSeq(cs, 5, Len(cs)))

---------------------------------------------------------------------------
(* Properties *)

\* C1: when the transport raises during the send step, http_rest raises
\* nothing, returns None, and appends to the errors list exactly one message,
\* which names the method and the URL.
C1_TransportExceptionReported ==
    (Ended(Main) /\ TransportRaised(Main) /\ HasSink(Main)) =>
        /\ ret[Main] = Returned(None)
        /\ PrefixKept(Main)
        /\ Len(Appended(Main)) = 1
        /\ Appended(Main)[1].method = entry[Main].args.method.value
        /\ Appended(Main)[1].url = entry[Main].args.url

\* C2: a job started with a callback delivers a reply to it whatever the
\* outcome of the dispatch (success, auth-resolution error, transport
\* exception, non-success status); no failure is raised out of the job, and
\* the reply of a failed dispatch carries 'errors'.  Stated of a job whose
\* thread has ended.
DispatchFailed(j) ==
    \/ UnsupportedScheme(j)
    \/ TokenFailed(j)
    \/ TransportRaised(j)
    \/ \E i \in DOMAIN sent[j] :
         /\ sent[j][i].outcome.kind = "response"
         /\ ~InSuccessRange(sent[j][i].outcome.response)

DispatchOutcomeKnown(j) ==
    UnsupportedScheme(j) \/ TokenFailed(j) \/ TransportRaised(j) \/ TransportResponded(j)

C2_CallbackAlwaysInvoked ==
    \A j \in Jobs :
        (pc[j] = "done" /\ job[j].callback /\ DispatchOutcomeKnown(j)) =>
            /\ IsNone(job[j].raised)
            /\ Len(delivered[j]) = 1
            /\ DispatchFailed(j) => "errors" \in DOMAIN delivered[j][1]

\* C3: a non-empty auth mapping whose scheme is not 'bearer' makes http_rest
\* abort: the transport is never called, None is returned, and exactly one
\* message, mentioning the scheme, is appended to the errors list.
C3_UnsupportedSchemeAborts ==
    (entry[Main] # <<>> /\ UnsupportedScheme(Main)) =>
        /\ sent[Main] = <<>>
        /\ tokenLog[Main] = <<>>
        /\ Ended(Main) =>
            /\ ret[Main] = Returned(None)
            /\ HasSink(Main) =>
                /\ PrefixKept(Main)
                /\ Len(Appended(Main)) = 1
                /\ Appended(Main)[1].kind = "scheme not implemented"
                /\ Appended(Main)[1].scheme = AuthGetScheme(Val(entry[Main].args.auth))

C3_Witness ==
    /\ entry[Main] # <<>> /\ UnsupportedScheme(Main) /\ Ended(Main) /\ HasSink(Main)
    /\ AuthGetScheme(Val(entry[Main].args.auth)) = Some("basic")
    /\ entry[Main].errors # <<>>
    /\ Len(errs[Main]) = Len(entry[Main].errors) + 1

\* C4: with bearer auth, when the token collaborator reports errors, the
\* transport is never called, None is returned, and the errors list ends as
\* its previous contents followed by exactly the collaborator's errors.
C4_TokenErrorAborts ==
    (entry[Main] # <<>> /\ TokenFailed(Main)) =>
        /\ sent[Main] = <<>>
        /\ Len(tokenLog[Main]) = 1
        /\ Ended(Main) =>
            /\ ret[Main] = Returned(None)
            /\ HasSink(Main) =>
                errs[Main] = entry[Main].errors \o tokenLog[Main][1].errors

C4_Witness ==
    /\ entry[Main] # <<>> /\ TokenFailed(Main) /\ Ended(Main) /\ HasSink(Main)
    /\ entry[Main].errors # <<>>
    /\ Len(tokenLog[Main][1].errors) = 2
    /\ Len(errs[Main]) = Len(entry[Main].errors) + 2

\* C5: a dispatch leaves the errors list unchanged if and only if it is
\* successful: a response was obtained and its status is in 200..299.
\* Stated of the dispatches that reached the transport.
C5_SinkUnchangedIffSuccess ==
    (Ended(Main) /\ HasSink(Main) /\ sent[Main] # <<>>) =>
        ((errs[Main] = entry[Main].errors)
            <=> (/\ ~IsNone(ret[Main].value)
                 /\ InSuccessRange(Val(ret[Main].value))))

\* C6: when the transport returns a response whose status is outside the
\* success range, http_rest returns that response and appends exactly one
\* message to the errors list.
NonSuccessResponse(p) ==
    /\ sent[p] # <<>>
    /\ sent[p][1].outcome.kind = "response"
    /\ ~InSuccessRange(sent[p][1].outcome.response)

C6_NonSuccessReturnsResponse ==
    (Ended(Main) /\ NonSuccessResponse(Main)) =>
        /\ ret[Main] = Returned(Some(sent[Main][1].outcome.response))
        /\ HasSink(Main) =>
            /\ PrefixKept(Main)
            /\ Len(Appended(Main)) = 1
            /\ Appended(Main)[1].kind = "failed"
            /\ Appended(Main)[1].status = sent[Main][1].outcome.response.status_code

C6_Witness ==
    /\ Ended(Main) /\ NonSuccessResponse(Main) /\ HasSink(Main)
    /\ sent[Main][1].outcome.response.status_code = 404
    /\ entry[Main].errors # <<>>
    /\ ret[Main].kind = "returned" /\ ~IsNone(ret[Main].value)

\* C7: in a job, the start timestamp is recorded before the dispatcher is
\* called, the finish timestamp after the dispatcher has returned and before
\* the callback is called, and start <= finish for every completed job.
ParseIso(s) == s.iso

C7_JobEventsOrdered ==
    \A j \in Jobs : (job[j] # NoJob) =>
        /\ dispatched[j] > 0 => ~IsNone(job[j].start_timestamp)
        /\ ~IsNone(job[j].finish_timestamp) =>
              /\ dispatched[j] = 1
              /\ ret[j].kind = "returned"
              /\ ~IsNone(job[j].start_timestamp)
              /\ ParseIso(Val(job[j].start_timestamp))
                    <= ParseIso(Val(job[j].finish_timestamp))
        /\ delivered[j] # <<>> =>
              /\ ~IsNone(job[j].finish_timestamp)
              /\ delivered[j][1]["start"] = Val(job[j].start_timestamp)
              /\ delivered[j][1]["finish"] = Val(job[j].finish_timestamp)

C7_Witness ==
    /\ pc[TheJob] = "done"
    /\ delivered[TheJob] # <<>>
    /\ ParseIso(Val(job[TheJob].start_timestamp)) = 1
    /\ ParseIso(Val(job[TheJob].finish_timestamp)) = 2

\* C8: the lifecycle of a job only moves Created -> Running -> Finished:
\* start() moves a Created job to Running, run() is entered only then, a
\* later start() is rejected and changes nothing else, and Finished is final.
C8_Step(j) ==
    /\ job[j].state = "Created" => job'[j].state \in {"Created", "Running"}
    /\ job[j].state = "Running" => job'[j].state \in {"Running", "Finished"}
    /\ job[j].state = "Finished" =>
          /\ job'[j].state = "Finished"
          /\ pc'[j] = pc[j]
          /\ dispatched'[j] = dispatched[j]
          /\ delivered'[j] = delivered[j]
    /\ (pc'[j] = "run" /\ pc[j] # "run") =>
          /\ job[j].state = "Created"
          /\ job'[j].state = "Running"
    /\ (job'[j].start_rejected /\ ~job[j].start_rejected) =>
          /\ job[j].state # "Created"
          /\ job' = [job EXCEPT ![j].start_rejected = TRUE]
          /\ UNCHANGED <<pc, frame, errs, sent, ret, delivered, dispatched>>
    /\ (job[j].state = "Created") = (pc[j] = "created")
    /\ (job[j].state = "Finished") = (pc[j] = "done")

C8_JobLifecycle ==
    [][\A j \in Jobs : (job[j] # NoJob) => C8_Step(j)]_vars

C8_Witness ==
    /\ job[TheJob].state = "Finished"
    /\ job[TheJob].start_rejected
    /\ dispatched[TheJob] = 1

\* C9: no retry: a started job calls the dispatcher exactly once, and a call
\* of http_rest calls the transport at most once, whatever the outcome.
C9_NoRetry ==
    \A j \in Jobs : (job[j] # NoJob) =>
        /\ dispatched[j] <= 1
        /\ pc[j] \in {"created", "run", "call"} => dispatched[j] = 0
        /\ pc[j] \notin {"created", "run", "call"} => dispatched[j] = 1
        /\ Len(sent[j]) <= 1
        /\ Len(tokenLog[j]) <= 1

C9_Witness ==
    /\ pc[TheJob] = "done"
    /\ dispatched[TheJob] = 1
    /\ Len(sent[TheJob]) = 1
    /\ NonSuccessResponse(TheJob)
    /\ errs[TheJob] # <<>>

\* C10: a job with report_content whose dispatch obtained a response carrying
\* bytes, whatever its status, delivers a reply with a 'content' key, whose
\* Base64 decoding is the content of the response.
C10_ContentReported ==
    \A j \in Jobs :
        (/\ delivered[j] # <<>>
         /\ job[j].report_content
         /\ ~IsNone(ret[j].value)
         /\ ~IsNone(Val(ret[j].value).content)
         /\ Val(Val(ret[j].value).content) # <<>>) =>
            /\ "content" \in DOMAIN delivered[j][1]
            /\ B64Decode(delivered[j][1]["content"]) = Val(Val(ret[j].value).content)

\* json.loads: the list of the string literals of a JSON array
RECURSIVE JsonLoads(_)
JsonLoads(text) ==
    IF text = <<>> THEN <<>>
    ELSE IF "str" \in DOMAIN Head(text)
         THEN << Head(text).str >> \o JsonLoads(Tail(text))
         ELSE JsonLoads(Tail(text))

\* C11: a job with report_content=false never delivers a reply with a
\* 'content' key, whatever the response and its payload; nor does any job
\* whose dispatch obtained no response.
C11_NoContentUnlessAsked ==
    \A j \in Jobs :
        (delivered[j] # <<>> /\ (~job[j].report_content \/ IsNone(ret[j].value))) =>
            "content" \notin DOMAIN delivered[j][1]

C11_Witness ==
    /\ delivered[TheJob] # <<>>
    /\ ~job[TheJob].report_content
    /\ ~IsNone(ret[TheJob].value)
    /\ Val(ret[TheJob].value).status_code = 200
    /\ Val(ret[TheJob].value).content = Some(<<77, 97, 110>>)

\* C12: every reply has the keys 'job-name', 'start' and 'finish', and has
\* the key 'errors' if and only if the job's errors list is not empty after
\* the dispatch; 'errors' is then the serialization of that list, in order.
C12_ReplyKeys ==
    \A j \in Jobs : \A i \in DOMAIN delivered[j] :
        LET reply == delivered[j][i]
        IN  /\ {"job-name", "start", "finish"} \subseteq DOMAIN reply
            /\ DOMAIN reply \subseteq {"job-name", "start", "finish", "errors", "content"}
            /\ reply["job-name"] = job[j].job_name
            /\ ("errors" \in DOMAIN reply) <=> (errs[j] # <<>>)
            /\ ("errors" \in DOMAIN reply) =>
                  /\ reply["errors"] = JsonDumps(errs[j])
                  /\ JsonLoads(reply["errors"]) = errs[j]

C12_Witness ==
    /\ delivered[TheJob] # <<>>
    /\ "errors" \in DOMAIN delivered[TheJob][1]
    /\ Len(errs[TheJob]) = 2
    /\ errs[TheJob][1] # errs[TheJob][2]

\* C13: the callback of a job is invoked at most once; a job without a
\* callback invokes nothing and still ends Finished with both timestamps
\* set.  Stated of the jobs whose dispatch reached an outcome.
C13_CallbackOnceAndCompletion ==
    \A j \in Jobs : (job[j] # NoJob) =>
        /\ Len(delivered[j]) <= 1
        /\ ~job[j].callback => delivered[j] = <<>>
        /\ (pc[j] = "done" /\ ~job[j].callback /\ DispatchOutcomeKnown(j)) =>
              /\ job[j].state = "Finished"
              /\ ~IsNone(job[j].start_timestamp)
              /\ ~IsNone(job[j].finish_timestamp)

\* the headers the transport is to receive from p when its token was obtained:
\* the entries of the mapping passed, and the Authorization of that token
AuthorizedHeaders(p) ==
    Some(Put(IF IsNone(entry[p].args.headers) THEN EmptyMap ELSE callerHeaders,
             "Authorization", Bearer(Val(tokenLog[p][1].token))))

TokenObtained(p) == tokenLog[p] # <<>> /\ tokenLog[p][1].errors = <<>>

\* C14: no step of http_rest changes the caller's headers mapping, which
\* never holds an Authorization entry; after a bearer token is obtained the
\* Authorization header is in the headers the transport receives, with the
\* caller's entries.
C14_CallerHeadersKept ==
    [][/\ callerHeaders' = callerHeaders
       /\ "Authorization" \notin DOMAIN callerHeaders'
       /\ \A i \in DOMAIN sent'[Main] :
             LET headers == sent'[Main][i].request.headers
             IN  IF TokenObtained(Main)'
                 THEN headers = AuthorizedHeaders(Main)'
                 ELSE IsNone(headers) \/ Val(headers) = callerHeaders']_vars

C14_Witness ==
    /\ pc[Main] = "idle"
    /\ entry[Main] # <<>>
    /\ entry[Main].args.headers = Some(HeaderRef)
    /\ callerHeaders = [Accept |-> "application/json"]
    /\ TokenObtained(Main)
    /\ sent[Main] # <<>>
    /\ Val(sent[Main][1].request.headers) =
          [Accept |-> "application/json", Authorization |-> Bearer([jwt |-> Main])]

\* C15: with two jobs running concurrently on one headers mapping, each
\* resolving its own bearer token, no step changes the shared mapping and
\* the request of each job carries the token that job obtained, never the
\* other job's.
C15_SharedHeadersSafe ==
    [][/\ callerHeaders' = callerHeaders
       /\ \A j \in Jobs : \A i \in DOMAIN sent'[j] :
             /\ TokenObtained(j)'
             /\ sent'[j][i].request.headers = AuthorizedHeaders(j)'
             /\ \A k \in Jobs \ {j} :
                   TokenObtained(k)' =>
                      Val(sent'[j][i].request.headers)["Authorization"]
                         # Bearer(Val(tokenLog'[k][1].token))]_vars

C15_Witness ==
    /\ callerHeaders = [Accept |-> "application/json"]
    /\ \A j \in Jobs :
          /\ pc[j] = "rest_validate"
          /\ sent[j] # <<>>
          /\ Val(sent[j][1].request.headers) =
                [Accept |-> "application/json", Authorization |-> Bearer([jwt |-> j])]

\* what is read from a stream: its bytes from its position on
ReadBack(stream) == SubSeq(stream.data, stream.pos + 1, Len(stream.data))

\* is 'out' what the transport is to receive for the entry 'in' of 'files' ?
Normalized(in, out) ==
    IF in.kind = "bytes"
    THEN out.kind = "stream" /\ out.pos = 0 /\ ReadBack(out) = in.data
    ELSE IF in.kind = "tuple" /\ in.content.kind = "bytes"
    THEN /\ out.kind = "tuple"
         /\ out.name = in.name
         /\ out.rest = in.rest
         /\ out.content.kind = "stream"
         /\ out.content.pos = 0
         /\ ReadBack(out.content) = in.content.data
    ELSE out = in

PostWithFiles(p) ==
    /\ entry[p] # <<>>
    /\ entry[p].args.method.value = "POST"
    /\ ~IsNone(entry[p].args.files)

\* C16: in a POST with a 'files' mapping the transport receives, under the
\* same keys, a stream at offset 0 that reads back the input bytes for every
\* entry that is bytes (bare or second of a tuple, the rest of the tuple
\* kept) and every other entry as it was; the caller's mapping is as passed.
C16_FilesNormalized ==
    /\ entry[Main] # <<>> => callerArgs[Main].files = entry[Main].args.files
    /\ PostWithFiles(Main) =>
          \A i \in DOMAIN sent[Main] :
             LET in == Val(entry[Main].args.files)
                 out == sent[Main][i].request.files
             IN  /\ ~IsNone(out)
                 /\ DOMAIN Val(out) = DOMAIN in
                 /\ \A k \in DOMAIN in : Normalized(in[k], Val(out)[k])

C16_Witness ==
    /\ PostWithFiles(Main)
    /\ DOMAIN Val(entry[Main].args.files) = {"doc", "img", "raw"}
    /\ sent[Main] # <<>>
    /\ Val(sent[Main][1].request.files).img =
          FileTuple("b.png", Stream(<<137, 80>>, 0), <<"image/png">>)
    /\ Val(sent[Main][1].request.files).raw = Stream(<<3, 4>>, 1)
    /\ Val(callerArgs[Main].files).doc = Bytes(<<1, 2>>)

\* C17: for a method other than POST the transport receives no files, and
\* the method, url and headers it receives are those of the call.
C17_FilesDisregarded ==
    (entry[Main] # <<>> /\ entry[Main].args.method.value # "POST") =>
        \A i \in DOMAIN sent[Main] :
            sent[Main][i].request =
                [method |-> entry[Main].args.method.name,
                 url |-> entry[Main].args.url,
                 headers |-> CloneHeaders(entry[Main].args.headers, callerHeaders),
                 files |-> None]

C17_Witness ==
    /\ entry[Main] # <<>>
    /\ entry[Main].args.method.name = "GET"
    /\ ~IsNone(entry[Main].args.files)
    /\ Val(entry[Main].args.files) # EmptyMap
    /\ sent[Main] # <<>>
    /\ IsNone(sent[Main][1].request.files)

\* the messages of p's call, from its arguments and what its collaborators did
OwnMessages(p) ==
    IF TokenFailed(p) THEN tokenLog[p][1].errors
    ELSE IF UnsupportedScheme(p) THEN << SchemeMsg(Val(entry[p].args.auth)) >>
    ELSE IF NonSuccessResponse(p)
    THEN << StatusMsg(entry[p].args.method, entry[p].args.url,
                      sent[p][1].outcome.response) >>
    ELSE <<>>

\* C18: every step of http_rest leaves what the caller's errors list held as
\* a prefix of what it holds afterwards, and what a call has appended when it
\* ends are the messages of that call alone, whatever the list held before.
C18_SinkAppendOnly ==
    [][/\ Len(errs'[Main]) >= Len(errs[Main])
       /\ SubSeq(errs'[Main], 1, Len(errs[Main])) = errs[Main]
       /\ Ended(Main)' =>
             /\ PrefixKept(Main)'
             /\ Appended(Main)' = IF HasSink(Main)' THEN OwnMessages(Main)' ELSE <<>>]_vars

C18_Witness ==
    /\ calls = 2
    /\ Ended(Main)
    /\ HasSink(Main)
    /\ Len(entry[Main].errors) = 2
    /\ NonSuccessResponse(Main)
    /\ Len(errs[Main]) = 3

\* the entries of a mapping besides 'scheme' and 'provider'
Claims(auth) == [k \in (DOMAIN auth) \ {"scheme", "provider"} |-> auth[k]]

\* p's call was given a bearer mapping with a provider
BearerWithProvider(p) ==
    /\ entry[p] # <<>>
    /\ ~IsNone(entry[p].args.auth)
    /\ AuthGetScheme(Val(entry[p].args.auth)) = Some("bearer")
    /\ "provider" \in DOMAIN Val(entry[p].args.auth)

\* C19: for a bearer mapping with a provider, once authorization is resolved
\* one token call has been made: jwt_request_token with the provider and the
\* other entries as claims if there are any, jwt_get_token with the provider
\* and no claims otherwise; if it reported no error, the call sends one
\* request, whose Authorization header is 'Bearer' and the token obtained.
C19_BearerTokenCall ==
    (BearerWithProvider(Main) /\ pc[Main] # "rest_auth") =>
        LET auth == Val(entry[Main].args.auth)
        IN  /\ Len(tokenLog[Main]) = 1
            /\ tokenLog[Main][1].service_url = auth.provider
            /\ IF DOMAIN Claims(auth) # {}
               THEN /\ tokenLog[Main][1].fn = "jwt_request_token"
                    /\ tokenLog[Main][1].claims = Some(Claims(auth))
               ELSE /\ tokenLog[Main][1].fn = "jwt_get_token"
                    /\ IsNone(tokenLog[Main][1].claims)
            /\ (tokenLog[Main][1].errors = <<>> /\ pc[Main] # "rest_send") =>
                  /\ Len(sent[Main]) = 1
                  /\ ~IsNone(sent[Main][1].request.headers)
                  /\ "Authorization" \in DOMAIN Val(sent[Main][1].request.headers)
                  /\ Val(sent[Main][1].request.headers)["Authorization"] =
                        Bearer(Val(tokenLog[Main][1].token))

C19_Witness ==
    /\ BearerWithProvider(Main)
    /\ Ended(Main)
    /\ Val(entry[Main].args.auth) =
          [scheme |-> "bearer", provider |-> Provider, sub |-> "client"]
    /\ tokenLog[Main][1].claims = Some([sub |-> "client"])
    /\ tokenLog[Main][1].errors = <<>>
    /\ Val(sent[Main][1].request.headers)["Authorization"] = Bearer([jwt |-> Main])

\* p's call was given a bearer mapping of the form the docstring gives
DocstringBearer(p) ==
    /\ entry[p] # <<>>
    /\ ~IsNone(entry[p].args.auth)
    /\ AuthGetScheme(Val(entry[p].args.auth)) = Some("bearer")
    /\ "url" \in DOMAIN Val(entry[p].args.auth)
    /\ "provider" \notin DOMAIN Val(entry[p].args.auth)

\* C20: a bearer mapping that gives the token URL under 'url' is accepted:
\* the call ends by returning, the token is asked of that URL, and if no
\* error is reported the request carries the Authorization header.
C20_DocstringBearerAccepted ==
    (DocstringBearer(Main) /\ Ended(Main)) =>
        /\ ret[Main].kind = "returned"
        /\ Len(tokenLog[Main]) = 1
        /\ tokenLog[Main][1].service_url = Val(entry[Main].args.auth).url
        /\ tokenLog[Main][1].errors = <<>> =>
              /\ sent[Main] # <<>>
              /\ "Authorization" \in DOMAIN Val(sent[Main][1].request.headers)

\* the value of the first of form, query string and JSON object that holds k
FirstOf(request, k) ==
    IF k \in DOMAIN request.form THEN request.form[k]
    ELSE IF k \in DOMAIN request.args THEN request.args[k]
    ELSE IF request.json.kind = "object" /\ k \in DOMAIN request.json.object
    THEN request.json.object[k]
    ELSE None

JsonNames(request) ==
    IF request.json.kind = "object" THEN DOMAIN request.json.object ELSE {}

\* C21: http_get_parameters returns, raising nothing, a mapping of the names
\* of the JSON object, the query string and the form, each name to its value
\* in the form if the form has it, else in the query string if that has it,
\* else in the JSON object; a body that is missing or no JSON gives no names.
C21_ParametersMerged ==
    web.op = "http_get_parameters" =>
        /\ web.ret.kind = "returned"
        /\ DOMAIN Val(web.ret.value) =
              DOMAIN web.request.form \cup DOMAIN web.request.args \cup JsonNames(web.request)
        /\ \A k \in DOMAIN Val(web.ret.value) :
              Val(web.ret.value)[k] = FirstOf(web.request, k)

C21_Witness ==
    /\ web.op = "http_get_parameters"
    /\ DOMAIN web.request.form = {"a"}
    /\ DOMAIN web.request.args = {"a", "b"}
    /\ web.request.json.kind = "object"
    /\ web.request.json.object = [a |-> Some("json"), b |-> Some("json")]
    /\ Val(web.ret.value) = [a |-> Some("form"), b |-> Some("query")]

\* C22: http_get_parameter returns, raising nothing, the value of the name
\* in the form if the form has it, else in the query string if that has it,
\* else in the JSON object; None if none has it, and so when the body is
\* missing or no JSON.
C22_ParameterFirstMatch ==
    web.op = "http_get_parameter" =>
        /\ web.ret.kind = "returned"
        /\ web.ret.value = FirstOf(web.request, web.param)

C22_Witness ==
    /\ web.op = "http_get_parameter"
    /\ web.param = "a"
    /\ web.request.form = [a |-> Some("form")]
    /\ web.request.args = [a |-> Some("query"), b |-> Some("query")]
    /\ web.request.json.kind = "object"
    /\ "a" \in DOMAIN web.request.json.object
    /\ web.ret.value = Some("form")

\* the code of the first entry of the table with the name, or None
RECURSIVE FirstCode(_, _)
FirstCode(statuses, status_name) ==
    IF statuses = <<>> THEN None
    ELSE IF Head(statuses).value.name = status_name THEN Some(Head(statuses).code)
    ELSE FirstCode(Tail(statuses), status_name)

\* C23: http_status_code returns the code of the first entry of the table
\* that has the name, and None for a name no entry has.
C23_StatusCodeFirstMatch ==
    web.op = "http_status_code" =>
        web.ret = Returned(FirstCode(web.statuses, web.status_name))

\* what a reader of job j's attributes may see at any moment
TimestampsSound(j) ==
    /\ pc[j] \in {"created", "run"} =>
          IsNone(job[j].start_timestamp) /\ IsNone(job[j].finish_timestamp)
    /\ ~IsNone(job[j].finish_timestamp) => ~IsNone(job[j].start_timestamp)
    /\ delivered[j] # <<>> => ~IsNone(job[j].finish_timestamp)

\* C24: in every state of a job both timestamps are unset until run() has
\* recorded the start, finish_timestamp is set only if start_timestamp is,
\* the callback has been invoked only if finish_timestamp is set, and no
\* step changes a timestamp that is set.
C24_TimestampsMonotonic ==
    [][/\ TimestampsSound(TheJob)
       /\ TimestampsSound(TheJob)'
       /\ ~IsNone(job[TheJob].start_timestamp) =>
             job'[TheJob].start_timestamp = job[TheJob].start_timestamp
       /\ ~IsNone(job[TheJob].finish_timestamp) =>
             job'[TheJob].finish_timestamp = job[TheJob].finish_timestamp]_vars

C24_Witness ==
    /\ pc[TheJob] = "done"
    /\ delivered[TheJob] # <<>>
    /\ job[TheJob].start_timestamp = Some(IsoFormat(0))
    /\ job[TheJob].finish_timestamp = Some(IsoFormat(2))
    /\ clock = 2

\* C25: with two jobs running concurrently, no step writes to a list of the
\* creator, the list of a job is written by that job's steps only, and the
\* 'errors' of a reply are the messages of that job's own dispatch, a reply
\* having no 'errors' when there are none.
C25_JobErrorsPrivate ==
    [][/\ errs'[Main] = errs[Main]
       /\ \A j \in Jobs :
             /\ errs'[j] # errs[j] => pc'[j] # pc[j]
             /\ \A i \in DOMAIN delivered'[j] :
                   IF "errors" \in DOMAIN delivered'[j][i]
                   THEN JsonLoads(delivered'[j][i]["errors"]) = OwnMessages(j)'
                   ELSE OwnMessages(j)' = <<>>]_vars

C25_Witness ==
    /\ \A j \in Jobs : pc[j] = "done" /\ delivered[j] # <<>>
    /\ TokenFailed("j1")
    /\ Len(JsonLoads(delivered["j1"][1]["errors"])) = 2
    /\ NonSuccessResponse("j2")
    /\ Len(JsonLoads(delivered["j2"][1]["errors"])) = 1

\* C26: the caller's auth mapping holds after every step of a call what it
\* held when it was passed, whatever the outcome of the call, and so the
\* mapping passed again to a later call is the one first written.
C26_AuthMappingKept ==
    entry[Main] # <<>> =>
        /\ callerArgs[Main].auth = entry[Main].args.auth
        /\ entry[Main].args.auth \in AuthInputs

C26_Witness ==
    /\ calls = 2
    /\ Ended(Main)
    /\ TokenObtained(Main)
    /\ sent[Main] # <<>>
    /\ callerArgs[Main].auth =
          Some([scheme |-> "bearer", provider |-> Provider, sub |-> "client"])

====
